---- MODULE Spec2Model ----
(***************************************************************************)
(* Histogram Sort with Sampling (hss.cpp): P worker threads, one reusable  *)
(* pthread barrier, one global mutex, one mutex per bucket, and the        *)
(* orchestrator (main) that joins the workers and validates the result.    *)
(***************************************************************************)
EXTENDS Integers, Sequences, FiniteSets, TLC

(* ---------------------------- bounds ----------------------------------- *)
MaxP == 3
MaxN == 3
MaxSeed == 1

(* ------------------------ program constants ---------------------------- *)
OversampleK == 10

NoHolder == -1

VARIABLES
  num_workers, random_seed, dataset,        \* Config: set by main before the threads start
  splitters, storage,                       \* Config::splitters: its elements, and its raw buffer
  lock, bucket_locks,                       \* Config::lock, Config::bucket_locks (holder ids)
  bucket_contributions,                     \* Config::bucket_contributions
  barrier_count, barrier_gen,               \* Config::barrier (arrivals of this round, round number)
  pc, my_gen,                               \* each worker's position, and the round it waits in
  local_chunk, local_samples,               \* WorkerContext
  local_buckets, loop_i,                    \* worker_function locals of phase 3
  total_samples, splitter_step, sel_i,      \* worker_function locals of the leader's phase 2b
  fault,                                    \* "none", or how the process died
  bucket_reads,                             \* per bucket, the workers that have read it (line 167)
  exit_code, validation, total_counted      \* main's outcome

vars == << num_workers, random_seed, dataset, splitters, storage, lock, bucket_locks,
           bucket_contributions, barrier_count, barrier_gen, pc, my_gen,
           local_chunk, local_samples, local_buckets, loop_i,
           total_samples, splitter_step, sel_i, fault, bucket_reads,
           exit_code, validation, total_counted >>

Workers == 0..(num_workers - 1)

(* ------------------------- pure helpers -------------------------------- *)

\* std::sort on a vector<long long>: the ascending arrangement of the same elements;
\* position i holds the value with fewer than i elements below it and at least i
\* elements not above it
SortAsc(s) ==
  [i \in 1..Len(s) |->
     CHOOSE v \in { s[j] : j \in 1..Len(s) } :
       /\ Cardinality({ j \in 1..Len(s) : s[j] < v }) < i
       /\ i <= Cardinality({ j \in 1..Len(s) : s[j] <= v })]

IsSorted(s) == \A i \in 1..(Len(s) - 1) : s[i] <= s[i + 1]

\* std::upper_bound: the library's binary search, 0-based result
RECURSIVE UpperBoundFrom(_, _, _, _)
UpperBoundFrom(s, value, first, len) ==
  IF len <= 0 THEN first
  ELSE LET half == len \div 2
           mid  == first + half
       IN  IF value < s[mid + 1]
           THEN UpperBoundFrom(s, value, first, half)
           ELSE UpperBoundFrom(s, value, mid + 1, len - half - 1)

UpperBound(s, value) == UpperBoundFrom(s, value, 0, Len(s))

Clamp(v, lo, hi) == IF v < lo THEN lo ELSE IF hi < v THEN hi ELSE v

\* stand-in for std::mt19937: a full-period linear congruential step on 0..15
RngNext(x) == (x * 5 + 3) % 16

\* std::sample: selection sampling of n elements, scanning chunk from position pos (1-based)
RECURSIVE SampleFrom(_, _, _, _)
SampleFrom(chunk, pos, n, x) ==
  IF n = 0 \/ pos > Len(chunk) THEN << >>
  ELSE LET remaining == Len(chunk) - pos + 1
           draw      == x % remaining
       IN  IF draw < n
           THEN << chunk[pos] >> \o SampleFrom(chunk, pos + 1, n - 1, RngNext(x))
           ELSE SampleFrom(chunk, pos + 1, n, RngNext(x))

Min(a, b) == IF a < b THEN a ELSE b

\* one sample fewer than asked for
StdSample_OneShort(chunk, n, seed) ==
  SampleFrom(chunk, 1, Min(n, Len(chunk)) - 1, RngNext(seed % 16))

StdSample(chunk, n, seed) == SampleFrom(chunk, 1, Min(n, Len(chunk)), RngNext(seed % 16))

\* lines 74-78
BaseChunkSize(N, P) == N \div P
ChunkStart(w, N, P) == w * BaseChunkSize(N, P)
\* the last worker forgets the remainder
ChunkEnd_NoRemainder(w, N, P) == ChunkStart(w, N, P) + BaseChunkSize(N, P)

ChunkEnd(w, N, P) ==
  IF w = P - 1 THEN N ELSE ChunkStart(w, N, P) + BaseChunkSize(N, P)

\* the slice is copied and the std::sort of line 82 is missing
InitialChunk_Unsorted(w, data, P) ==
  SubSeq(data, ChunkStart(w, Len(data), P) + 1, ChunkEnd(w, Len(data), P))

\* lines 80-82: the slice [chunk_start, chunk_end) of the dataset, sorted
InitialChunk(w, data, P) ==
  SortAsc(SubSeq(data, ChunkStart(w, Len(data), P) + 1, ChunkEnd(w, Len(data), P)))

\* line 94
SamplesPerWorker(P) == OversampleK * P

\* lines 95-103
SelectSamples(w, chunk, P, seed) ==
  IF Len(chunk) >= SamplesPerWorker(P)
  THEN StdSample(chunk, SamplesPerWorker(P), seed + w)
  ELSE chunk

\* the leader sorts the pool in descending order
LeaderSortPool_Descending(pool) ==
  [i \in 1..Len(pool) |-> SortAsc(pool)[Len(pool) - i + 1]]

\* the leader selects from the pool in arrival order
LeaderSortPool_NoSort(pool) == pool

\* line 118
LeaderSortPool(pool) == SortAsc(pool)

\* std::lower_bound in place of std::upper_bound: the splitters below the value
BucketIdx_LowerBound(spl, value, P) ==
  Clamp(Cardinality({ i \in 1..Len(spl) : spl[i] < value }), 0, P - 1)

\* lines 143-146
BucketIdx(spl, value, P) == Clamp(UpperBound(spl, value), 0, P - 1)

\* lines 141-148: the chunk's values grouped by bucket, in scan order
PartitionChunk(chunk, spl, P) ==
  [b \in 0..(P - 1) |-> SelectSeq(chunk, LAMBDA v : BucketIdx(spl, v, P) = b)]

\* the bucket is assigned, not extended
BucketInsert_Overwrite(old, new) == new

\* lines 154-156: vector::insert at end()
BucketInsert(old, new) == old \o new

\* the final chunk is left in arrival order
FinalSortChunk_NoSort(bucket) == bucket

\* line 168
FinalSortChunk(bucket) == SortAsc(bucket)

\* vector::push_back on (elements, raw buffer): the element lands in the first
\* unused slot of the buffer, or in a fresh buffer holding only the elements
PushBackStorage(elems, buf, v) ==
  IF Len(elems) < Len(buf) THEN [buf EXCEPT ![Len(elems) + 1] = v] ELSE Append(elems, v)

(* ------------------------- synchronisation ----------------------------- *)

\* a lock that never blocks
MutexFree_Always(holder) == TRUE

\* pthread_mutex_lock returns only when no thread holds the mutex
MutexFree(holder) == holder = NoHolder

\* a barrier initialised for one participant too few
BarrierFull_EarlyRelease(count, P) == count + 1 >= P - 1

\* pthread_barrier_wait: the arrival that completes the round
BarrierFull(count, P) == count + 1 = P

\* the test worker_id == 0 of line 117 is missing: every worker selects
AfterBarrier_AllSelect(k, w) ==
  CASE k = 1 -> "Sample"
    [] k = 2 -> "SelSort"
    [] k = 3 -> "Partition"
    [] OTHER -> "FinalSort"

\* the wait of line 137 is missing for the workers that do not select
AfterBarrier_SkipThird(k, w) ==
  CASE k = 1 -> "Sample"
    [] k = 2 -> IF w = 0 THEN "SelSort" ELSE "Partition"
    [] k = 3 -> "Partition"
    [] OTHER -> "FinalSort"

\* the statement that follows the k-th pthread_barrier_wait
AfterBarrier(k, w) ==
  CASE k = 1 -> "Sample"
    [] k = 2 -> IF w = 0 THEN "SelSort" ELSE "B3"
    [] k = 3 -> "Partition"
    [] OTHER -> "FinalSort"

BarrierPcs == { "B1", "B2", "B3", "B4" }
WaitPcs == { "W1", "W2", "W3", "W4" }
BarrierNo(p) ==
  CASE p \in { "B1", "W1" } -> 1
    [] p \in { "B2", "W2" } -> 2
    [] p \in { "B3", "W3" } -> 3
    [] OTHER -> 4
WaitPc(k) == CASE k = 1 -> "W1" [] k = 2 -> "W2" [] k = 3 -> "W3" [] OTHER -> "W4"

Running == fault = "none"

(* ------------------------------ Init ----------------------------------- *)

\* lines 195-202: the values main generates, i * i for i = 1..n
Squares(n) == { i * i : i \in 1..n }

\* lines 203-204: std::shuffle leaves some arrangement of them, one for each seed
Shuffles(n) ==
  { d \in [1..n -> Squares(n)] : \A i, j \in 1..n : d[i] = d[j] => i = j }

\* an arrangement long enough for one worker to take the std::sample branch
LargeDataset(len, r) == [i \in 1..len |-> LET k == ((i * 7 + r) % len) + 1 IN k * k]

Configs ==
  { [P |-> p, data |-> d, seed |-> 0] :
      p \in 1..MaxP, d \in UNION { Shuffles(n) : n \in 0..MaxN } }
  \cup
  { [P |-> 1, data |-> LargeDataset(OversampleK + x, r), seed |-> sd] :
      x \in 0..2, r \in 0..1, sd \in 0..MaxSeed }

\* the state main has built when the last pthread_create returns (lines 188-231)
Init ==
  \E c \in Configs :
    /\ num_workers = c.P
    /\ random_seed = c.seed
    /\ dataset = c.data
    /\ splitters = << >>
    /\ storage = << >>
    /\ lock = NoHolder
    /\ bucket_locks = [b \in 0..(c.P - 1) |-> NoHolder]
    /\ bucket_contributions = [b \in 0..(c.P - 1) |-> << >>]
    /\ barrier_count = 0
    /\ barrier_gen = 0
    /\ pc = [w \in 0..(c.P - 1) |-> "LocalSort"]
    /\ my_gen = [w \in 0..(c.P - 1) |-> 0]
    /\ local_chunk = [w \in 0..(c.P - 1) |-> << >>]
    /\ local_samples = [w \in 0..(c.P - 1) |-> << >>]
    /\ local_buckets = [w \in 0..(c.P - 1) |-> [b \in 0..(c.P - 1) |-> << >>]]
    /\ loop_i = [w \in 0..(c.P - 1) |-> 0]
    /\ total_samples = 0
    /\ splitter_step = 0
    /\ sel_i = 0
    /\ fault = "none"
    /\ bucket_reads = [b \in 0..(c.P - 1) |-> << >>]
    /\ exit_code = -1
    /\ validation = "none"
    /\ total_counted = 0

configVars == << num_workers, random_seed, dataset >>
leaderVars == << total_samples, splitter_step, sel_i >>
mainVars == << exit_code, validation, total_counted >>
barrierVars == << barrier_count, barrier_gen, my_gen >>

(* ---------------------------- worker steps ----------------------------- *)

\* lines 74-82
LocalSort(w) ==
  /\ Running /\ pc[w] = "LocalSort"
  /\ local_chunk' = [local_chunk EXCEPT ![w] = InitialChunk(w, dataset, num_workers)]
  /\ pc' = [pc EXCEPT ![w] = "B1"]
  /\ UNCHANGED << configVars, splitters, storage, lock, bucket_locks, bucket_contributions,
                  barrierVars, local_samples, local_buckets, loop_i, leaderVars, fault,
                  bucket_reads, mainVars >>

\* pthread_barrier_wait (lines 90, 113, 137, 163): arrive; the last arrival opens the next
\* round and returns at once, the others block
BarrierArrive(w) ==
  /\ Running /\ pc[w] \in BarrierPcs
  /\ IF BarrierFull(barrier_count, num_workers)
     THEN /\ barrier_count' = 0
          /\ barrier_gen' = barrier_gen + 1
          /\ pc' = [pc EXCEPT ![w] = AfterBarrier(BarrierNo(pc[w]), w)]
          /\ UNCHANGED my_gen
     ELSE /\ barrier_count' = barrier_count + 1
          /\ my_gen' = [my_gen EXCEPT ![w] = barrier_gen]
          /\ pc' = [pc EXCEPT ![w] = WaitPc(BarrierNo(pc[w]))]
          /\ UNCHANGED barrier_gen
  /\ UNCHANGED << configVars, splitters, storage, lock, bucket_locks, bucket_contributions,
                  local_chunk, local_samples, local_buckets, loop_i, leaderVars, fault,
                  bucket_reads, mainVars >>

\* pthread_barrier_wait: a blocked worker returns once its round is over
BarrierLeave(w) ==
  /\ Running /\ pc[w] \in WaitPcs
  /\ barrier_gen # my_gen[w]
  /\ pc' = [pc EXCEPT ![w] = AfterBarrier(BarrierNo(pc[w]), w)]
  /\ UNCHANGED << configVars, splitters, storage, lock, bucket_locks, bucket_contributions,
                  barrierVars, local_chunk, local_samples, local_buckets, loop_i,
                  leaderVars, fault, bucket_reads, mainVars >>

\* lines 94-103
Sample(w) ==
  /\ Running /\ pc[w] = "Sample"
  /\ local_samples' = [local_samples EXCEPT
                         ![w] = SelectSamples(w, local_chunk[w], num_workers, random_seed)]
  /\ pc' = [pc EXCEPT ![w] = "SLock"]
  /\ UNCHANGED << configVars, splitters, storage, lock, bucket_locks, bucket_contributions,
                  barrierVars, local_chunk, local_buckets, loop_i, leaderVars, fault,
                  bucket_reads, mainVars >>

\* line 106
SampleLock(w) ==
  /\ Running /\ pc[w] = "SLock"
  /\ MutexFree(lock)
  /\ lock' = w
  /\ pc' = [pc EXCEPT ![w] = "SAppend"]
  /\ UNCHANGED << configVars, splitters, storage, bucket_locks, bucket_contributions,
                  barrierVars, local_chunk, local_samples, local_buckets, loop_i,
                  leaderVars, fault, bucket_reads, mainVars >>

\* lines 107-108
SampleAppend(w) ==
  /\ Running /\ pc[w] = "SAppend"
  /\ splitters' = splitters \o local_samples[w]
  /\ storage' = splitters \o local_samples[w]
  /\ pc' = [pc EXCEPT ![w] = "SUnlock"]
  /\ UNCHANGED << configVars, lock, bucket_locks, bucket_contributions,
                  barrierVars, local_chunk, local_samples, local_buckets, loop_i,
                  leaderVars, fault, bucket_reads, mainVars >>

\* line 109
SampleUnlock(w) ==
  /\ Running /\ pc[w] = "SUnlock"
  /\ lock' = NoHolder
  /\ pc' = [pc EXCEPT ![w] = "B2"]
  /\ UNCHANGED << configVars, splitters, storage, bucket_locks, bucket_contributions,
                  barrierVars, local_chunk, local_samples, local_buckets, loop_i,
                  leaderVars, fault, bucket_reads, mainVars >>

(* ------------------- phase 2b: the leader's selection ------------------ *)

Faults == { "assert", "segv" }

Value(v) == [kind |-> "value", v |-> v]
Fault(f) == [kind |-> "fault", why |-> f]

\* the load past the end lands one slot further on
IndexRead_NextSlot(elems, buf, idx) ==
  IF idx < Len(elems) THEN { Value(elems[idx + 1]) }
  ELSE { Fault("assert") }
         \cup (IF idx + 1 < Len(buf) THEN { Value(buf[idx + 2]) } ELSE { Fault("segv") })

\* vector::operator[] (line 126) at 0-based idx: an element when idx < size(); otherwise the
\* call is undefined: an unchecked build loads the slot of the raw buffer that clear() left
\* behind, a bounds-checked build aborts
IndexRead(elems, buf, idx) ==
  IF idx < Len(elems) THEN { Value(elems[idx + 1]) }
  ELSE { Fault("assert") }
         \cup (IF idx < Len(buf) THEN { Value(buf[idx + 1]) } ELSE { Fault("segv") })

\* vector::back() (line 130): the last element; on an empty vector that never allocated it
\* is a load from begin() - 1, undefined: a bounds-checked build aborts, any other faults
BackRead(elems, buf) ==
  IF Len(elems) > 0 THEN { Value(elems[Len(elems)]) } ELSE { Fault(f) : f \in Faults }

\* the step is rounded up
SplitterStep_CeilDiv(T, P) == (T + P - 1) \div P

\* line 120
SplitterStep(T, P) == T \div P

\* lines 118-120
SelSort(w) ==
  /\ Running /\ pc[w] = "SelSort"
  /\ splitters' = LeaderSortPool(splitters)
  /\ storage' = LeaderSortPool(splitters)
  /\ total_samples' = Len(splitters)
  /\ splitter_step' = SplitterStep(Len(splitters), num_workers)
  /\ pc' = [pc EXCEPT ![w] = "SelClear"]
  /\ UNCHANGED << configVars, lock, bucket_locks, bucket_contributions, barrierVars,
                  local_chunk, local_samples, local_buckets, loop_i, sel_i, fault,
                  bucket_reads, mainVars >>

\* line 122, and the loop's i = 1: clear() drops the elements and keeps the buffer
SelClear(w) ==
  /\ Running /\ pc[w] = "SelClear"
  /\ splitters' = << >>
  /\ sel_i' = 1
  /\ pc' = [pc EXCEPT ![w] = "SelLoop"]
  /\ UNCHANGED << configVars, storage, lock, bucket_locks, bucket_contributions,
                  barrierVars, local_chunk, local_samples, local_buckets, loop_i,
                  total_samples, splitter_step, fault, bucket_reads, mainVars >>

\* lines 123-128: one iteration of the selection loop
SelLoop(w) ==
  /\ Running /\ pc[w] = "SelLoop"
  /\ LET idx == sel_i * splitter_step
     IN  IF sel_i >= num_workers
         THEN /\ pc' = [pc EXCEPT ![w] = "SelPad"]
              /\ UNCHANGED << splitters, storage, sel_i, fault >>
         ELSE IF idx < total_samples
         THEN \E r \in IndexRead(splitters, storage, idx) :
                IF r.kind = "fault"
                THEN /\ fault' = r.why
                     /\ UNCHANGED << splitters, storage, sel_i, pc >>
                ELSE /\ splitters' = Append(splitters, r.v)
                     /\ storage' = PushBackStorage(splitters, storage, r.v)
                     /\ sel_i' = sel_i + 1
                     /\ UNCHANGED << fault, pc >>
         ELSE /\ sel_i' = sel_i + 1
              /\ UNCHANGED << splitters, storage, fault, pc >>
  /\ UNCHANGED << configVars, lock, bucket_locks, bucket_contributions, barrierVars,
                  local_chunk, local_samples, local_buckets, loop_i,
                  total_samples, splitter_step, bucket_reads, mainVars >>

\* lines 129-132: one test of the padding loop, and its body
SelPad(w) ==
  /\ Running /\ pc[w] = "SelPad"
  /\ IF Len(splitters) < num_workers - 1
     THEN \E r \in BackRead(splitters, storage) :
            IF r.kind = "fault"
            THEN /\ fault' = r.why
                 /\ UNCHANGED << splitters, storage, pc >>
            ELSE /\ splitters' = Append(splitters, r.v)
                 /\ storage' = PushBackStorage(splitters, storage, r.v)
                 /\ UNCHANGED << fault, pc >>
     ELSE /\ pc' = [pc EXCEPT ![w] = "B3"]
          /\ UNCHANGED << splitters, storage, fault >>
  /\ UNCHANGED << configVars, lock, bucket_locks, bucket_contributions, barrierVars,
                  local_chunk, local_samples, local_buckets, loop_i, leaderVars,
                  bucket_reads, mainVars >>

(* ------------------- phase 3: partition and exchange ------------------- *)

\* lines 141-148, and the exchange loop's i = 0
Partition(w) ==
  /\ Running /\ pc[w] = "Partition"
  /\ local_buckets' = [local_buckets EXCEPT
                         ![w] = PartitionChunk(local_chunk[w], splitters, num_workers)]
  /\ loop_i' = [loop_i EXCEPT ![w] = 0]
  /\ pc' = [pc EXCEPT ![w] = "XLoop"]
  /\ UNCHANGED << configVars, splitters, storage, lock, bucket_locks, bucket_contributions,
                  barrierVars, local_chunk, local_samples, leaderVars, fault,
                  bucket_reads, mainVars >>

\* the test of line 152 is missing: the loop stops at every sub-list
NextNonEmpty_NoSkip(buckets, from, P) == IF from >= P THEN P ELSE from

\* lines 151-152: the loop skips the empty sub-lists (thread-local tests): the first
\* i at or after from whose sub-list is not empty, or P
RECURSIVE NextNonEmpty(_, _, _)
NextNonEmpty(buckets, from, P) ==
  IF from >= P THEN P
  ELSE IF buckets[from] # << >> THEN from
  ELSE NextNonEmpty(buckets, from + 1, P)

\* the wait of line 163 is missing
ExchangeExit_NoBarrier(w) == "FinalSort"

\* line 163: a worker that leaves the exchange loop goes to the fourth barrier wait
ExchangeExit(w) == "B4"

\* lines 151-153: up to the next pthread_mutex_lock, or out of the loop
XLoop(w) ==
  /\ Running /\ pc[w] = "XLoop"
  /\ LET i == NextNonEmpty(local_buckets[w], loop_i[w], num_workers)
     IN  IF i >= num_workers
         THEN /\ pc' = [pc EXCEPT ![w] = ExchangeExit(w)]
              /\ loop_i' = [loop_i EXCEPT ![w] = i]
              /\ UNCHANGED bucket_locks
         ELSE /\ MutexFree(bucket_locks[i])
              /\ bucket_locks' = [bucket_locks EXCEPT ![i] = w]
              /\ loop_i' = [loop_i EXCEPT ![w] = i]
              /\ pc' = [pc EXCEPT ![w] = "XAppend"]
  /\ UNCHANGED << configVars, splitters, storage, lock, bucket_contributions,
                  barrierVars, local_chunk, local_samples, local_buckets, leaderVars,
                  fault, bucket_reads, mainVars >>

\* lines 154-156
XAppend(w) ==
  /\ Running /\ pc[w] = "XAppend"
  /\ bucket_contributions' =
       [bucket_contributions EXCEPT
          ![loop_i[w]] = BucketInsert(bucket_contributions[loop_i[w]],
                                      local_buckets[w][loop_i[w]])]
  /\ pc' = [pc EXCEPT ![w] = "XUnlock"]
  /\ UNCHANGED << configVars, splitters, storage, lock, bucket_locks,
                  barrierVars, local_chunk, local_samples, local_buckets, loop_i,
                  leaderVars, fault, bucket_reads, mainVars >>

\* line 157, and the loop's ++i
XUnlock(w) ==
  /\ Running /\ pc[w] = "XUnlock"
  /\ bucket_locks' = [bucket_locks EXCEPT ![loop_i[w]] = NoHolder]
  /\ loop_i' = [loop_i EXCEPT ![w] = loop_i[w] + 1]
  /\ pc' = [pc EXCEPT ![w] = "XLoop"]
  /\ UNCHANGED << configVars, splitters, storage, lock, bucket_contributions,
                  barrierVars, local_chunk, local_samples, local_buckets,
                  leaderVars, fault, bucket_reads, mainVars >>

(* -------------------------- phase 4 and main --------------------------- *)

\* line 167: the bucket a worker takes as its final chunk
OwnBucket(w) == w

\* lines 167-168
FinalSort(w) ==
  /\ Running /\ pc[w] = "FinalSort"
  /\ local_chunk' = [local_chunk EXCEPT
                       ![w] = FinalSortChunk(bucket_contributions[OwnBucket(w)])]
  /\ bucket_reads' = [bucket_reads EXCEPT ![OwnBucket(w)] = Append(@, w)]
  /\ pc' = [pc EXCEPT ![w] = "Done"]
  /\ UNCHANGED << configVars, splitters, storage, lock, bucket_locks, bucket_contributions,
                  barrierVars, local_samples, local_buckets, loop_i, leaderVars, fault,
                  mainVars >>

AllDone == \A w \in Workers : pc[w] = "Done"

\* lines 241-243: the chunks of workers w, w+1, ... in worker-id order
RECURSIVE ConcatFrom(_, _, _)
ConcatFrom(chunks, w, P) ==
  IF w >= P THEN << >> ELSE chunks[w] \o ConcatFrom(chunks, w + 1, P)

\* line 244
RECURSIVE CountFrom(_, _, _)
CountFrom(chunks, w, P) ==
  IF w >= P THEN 0 ELSE Len(chunks[w]) + CountFrom(chunks, w + 1, P)

SortedResult == ConcatFrom(local_chunk, 0, num_workers)

\* lines 234-264 and 305: join, collect, validate, exit
MainCollect ==
  /\ Running /\ AllDone /\ exit_code = -1
  /\ total_counted' = CountFrom(local_chunk, 0, num_workers)
  /\ IF CountFrom(local_chunk, 0, num_workers) # Len(dataset)
     THEN /\ exit_code' = 1
          /\ UNCHANGED validation
     ELSE /\ validation' = IF SortAsc(SortedResult) = SortAsc(dataset)
                           THEN "Sorted correctly!" ELSE "Sorting failed!"
          /\ exit_code' = 0
  /\ UNCHANGED << configVars, splitters, storage, lock, bucket_locks, bucket_contributions,
                  barrierVars, pc, local_chunk, local_samples, local_buckets, loop_i,
                  leaderVars, fault, bucket_reads >>

Next ==
  \/ \E w \in Workers : LocalSort(w)
  \/ \E w \in Workers : BarrierArrive(w)
  \/ \E w \in Workers : BarrierLeave(w)
  \/ \E w \in Workers : Sample(w)
  \/ \E w \in Workers : SampleLock(w)
  \/ \E w \in Workers : SampleAppend(w)
  \/ \E w \in Workers : SampleUnlock(w)
  \/ \E w \in Workers : SelSort(w)
  \/ \E w \in Workers : SelClear(w)
  \/ \E w \in Workers : SelLoop(w)
  \/ \E w \in Workers : SelPad(w)
  \/ \E w \in Workers : Partition(w)
  \/ \E w \in Workers : XLoop(w)
  \/ \E w \in Workers : XAppend(w)
  \/ \E w \in Workers : XUnlock(w)
  \/ \E w \in Workers : FinalSort(w)
  \/ MainCollect

Spec == Init /\ [][Next]_vars

\* the scheduler runs a thread whenever one can run
FairSpec == Spec /\ WF_vars(Next)

(* ============================== claims ================================= *)

N == Len(dataset)

SelectionPcs == { "SelSort", "SelClear", "SelLoop", "SelPad" }
ExchangePcs == { "XLoop", "XAppend", "XUnlock" }
PartitionOrLater == { "Partition", "B4", "W4", "FinalSort", "Done" } \cup ExchangePcs
ExchangeOver == { "W4", "FinalSort", "Done" }

\* what a run must produce, from the dataset, P and the seed alone (worker-id order)
ExpectedSamples(w) ==
  SelectSamples(w, InitialChunk(w, dataset, num_workers), num_workers, random_seed)
ExpectedPool ==
  SortAsc(ConcatFrom([w \in Workers |-> ExpectedSamples(w)], 0, num_workers))
ExpectedSplitters ==
  [i \in 1..(num_workers - 1) |->
     ExpectedPool[i * (Len(ExpectedPool) \div num_workers) + 1]]
ExpectedBucket(b) ==
  ConcatFrom([w \in Workers |->
                PartitionChunk(InitialChunk(w, dataset, num_workers),
                               ExpectedSplitters, num_workers)[b]], 0, num_workers)
ExpectedFinal(b) == SortAsc(ExpectedBucket(b))

\* C1: once all workers are Done, the final chunks concatenated in worker-id order are
\* a permutation of the dataset (equal once both are sorted)
C1_Permutation == AllDone => SortAsc(SortedResult) = SortAsc(dataset)

C1_Witness ==
  /\ AllDone /\ num_workers >= 2 /\ N >= 3
  /\ \A w \in Workers : local_chunk[w] # << >>

\* C2: once all workers are Done, every final chunk is ascending and every value of
\* worker i's chunk is <= every value of worker j's chunk for i < j
C2_SortedConcat ==
  AllDone =>
    /\ \A w \in Workers : IsSorted(local_chunk[w])
    /\ \A i, j \in Workers :
         i < j => \A a \in 1..Len(local_chunk[i]), b \in 1..Len(local_chunk[j]) :
                    local_chunk[i][a] <= local_chunk[j][b]
    /\ IsSorted(SortedResult)

C2_Witness ==
  /\ AllDone /\ num_workers >= 2 /\ ~IsSorted(dataset)
  /\ \E w \in Workers : Len(local_chunk[w]) >= 2 /\ local_chunk[w][1] < local_chunk[w][2]
  /\ \E w \in Workers : w > 0 /\ local_chunk[w] # << >>

AtBarrier(k) == \A w \in Workers : pc[w] \in BarrierPcs \cup WaitPcs /\ BarrierNo(pc[w]) = k
StageBoundary == AllDone \/ \E k \in 1..4 : AtBarrier(k)

\* C3: at every stage boundary (all workers at the same barrier, or all Done) the chunk
\* sizes add up to N, and main never takes the count-mismatch exit
C3_CountPreserved ==
  /\ StageBoundary => CountFrom(local_chunk, 0, num_workers) = N
  /\ exit_code # 1
  /\ exit_code = 0 => total_counted = N

C3_Witness ==
  /\ exit_code = 0 /\ num_workers >= 2 /\ N % num_workers # 0
  /\ total_counted = N

LeaderSelectionEnded == pc[0] \in { "B3", "W3" } \cup PartitionOrLater \/ fault # "none"

\* C4: once the leader's selection has ended, by running to its end or by the process
\* dying in it, Splitters has exactly P-1 entries, whatever the size of the sample pool
C4_SplittersLength == LeaderSelectionEnded => Len(splitters) = num_workers - 1

\* C5: the result does not depend on the interleaving: in every run that ends, Splitters
\* and every worker's final chunk are the values the dataset, P and the seed determine
C5_Deterministic ==
  AllDone =>
    /\ splitters = ExpectedSplitters
    /\ \A w \in Workers : local_chunk[w] = ExpectedFinal(w)

C5_Witness ==
  /\ AllDone /\ num_workers >= 2
  /\ \E b \in Workers :
       /\ bucket_contributions[b] # ExpectedBucket(b)
       /\ local_chunk[b] = ExpectedFinal(b)

AllPcs ==
  { "LocalSort", "Sample", "SLock", "SAppend", "SUnlock", "Partition", "FinalSort", "Done" }
    \cup BarrierPcs \cup WaitPcs \cup SelectionPcs \cup ExchangePcs

\* at each position, the barrier waits a worker has called, and those it has returned from
PcArrived ==
  [p \in AllPcs |->
     CASE p = "LocalSort" -> 0
       [] p \in BarrierPcs -> BarrierNo(p) - 1
       [] p \in WaitPcs -> BarrierNo(p)
       [] p \in { "Sample", "SLock", "SAppend", "SUnlock" } -> 1
       [] p \in SelectionPcs -> 2
       [] p \in { "Partition" } \cup ExchangePcs -> 3
       [] OTHER -> 4]
PcPassed == [p \in AllPcs |-> IF p \in WaitPcs THEN PcArrived[p] - 1 ELSE PcArrived[p]]
Arrived(w) == PcArrived[pc[w]]
Passed(w) == PcPassed[pc[w]]

\* C6: no worker returns from its k-th wait before every worker has called its k-th
\* wait, so no worker is more than one phase ahead, and the barrier's count holds the
\* arrivals of the current round only
C6_BarrierRounds ==
  /\ \A w, v \in Workers : Passed(w) <= Arrived(v)
  /\ \A w, v \in Workers : Passed(w) - Passed(v) <= 1
  /\ barrier_count = Cardinality({ w \in Workers : pc[w] \in WaitPcs /\ my_gen[w] = barrier_gen })
  /\ barrier_count < num_workers

C6_Witness ==
  /\ num_workers >= 2
  /\ \E w, v \in Workers : pc[w] = "W4" /\ pc[v] = "W3" /\ barrier_count = 1

PcStage ==
  [p \in AllPcs |->
     CASE p \in { "LocalSort", "B1", "W1" } -> 1
       [] p \in { "Sample", "SLock", "SAppend", "SUnlock", "B2", "W2" } -> 2
       [] p \in SelectionPcs \cup { "B3", "W3" } -> 3
       [] p = "Partition" -> 4
       [] p \in ExchangePcs \cup { "B4", "W4" } -> 5
       [] p = "FinalSort" -> 6
       [] OTHER -> 7]
StageRank(p) == PcStage[p]

\* C7: no worker ever moves back to an earlier stage or calls a barrier wait out of
\* order, and with N >= P every worker eventually reaches Done
C7_Progress ==
  /\ [][\A w \in Workers : /\ StageRank(pc'[w]) >= StageRank(pc[w])
                           /\ Arrived(w)' \in { Arrived(w), Arrived(w) + 1 }]_vars
  /\ (N >= num_workers => <>AllDone)

\* C8: whenever a worker is in Partition or beyond, the third barrier round is over
\* and the leader is out of its selection with P-1 splitters published, and from then
\* on Splitters never changes
C8_SplittersReady ==
  /\ []((\E w \in Workers : pc[w] \in PartitionOrLater) =>
          /\ barrier_gen >= 3
          /\ pc[0] \in { "W3" } \cup PartitionOrLater
          /\ Len(splitters) = num_workers - 1)
  /\ [][(\E w \in Workers : pc[w] \in PartitionOrLater) => splitters' = splitters]_vars

C8_Witness ==
  /\ num_workers >= 2 /\ splitters # << >>
  /\ pc[0] = "W3"
  /\ \E w \in Workers : w # 0 /\ pc[w] = "XLoop" /\ local_buckets[w][1] # << >>

\* C9: bucket i is read by worker i only and once; when it is read every worker has
\* left Exchange; and once the fourth barrier round is over no bucket changes
C9_BucketHandoff ==
  /\ [](/\ \A b \in Workers : bucket_reads[b] \in { << >>, << b >> }
        /\ \A b \in Workers : pc[b] = "Done" => bucket_reads[b] = << b >>
        /\ \A b \in Workers :
             (pc[b] = "FinalSort" \/ bucket_reads[b] # << >>) =>
               /\ barrier_gen >= 4
               /\ \A w \in Workers : pc[w] \in ExchangeOver)
  /\ [][barrier_gen >= 4 => bucket_contributions' = bucket_contributions]_vars

C9_Witness ==
  /\ num_workers >= 2
  /\ \E b, w \in Workers :
       /\ bucket_reads[b] = << b >> /\ pc[w] = "W4"
       /\ Len(bucket_contributions[b]) >= 2

HeldBy(w) ==
  (IF lock = w THEN 1 ELSE 0) + Cardinality({ b \in Workers : bucket_locks[b] = w })

\* C10: at most one worker is inside the sample-pool append, at most one worker is
\* inside the append to any one bucket, and no worker holds two mutexes
C10_MutualExclusion ==
  /\ Cardinality({ w \in Workers : pc[w] \in { "SAppend", "SUnlock" } }) <= 1
  /\ \A b \in Workers :
       Cardinality({ w \in Workers : pc[w] \in { "XAppend", "XUnlock" } /\ loop_i[w] = b }) <= 1
  /\ \A w \in Workers : HeldBy(w) <= 1
  /\ \A w \in Workers : (lock = w) <=> pc[w] \in { "SAppend", "SUnlock" }
  /\ \A w, b \in Workers :
       (bucket_locks[b] = w) <=> (pc[w] \in { "XAppend", "XUnlock" } /\ loop_i[w] = b)

C10_Witness ==
  \E w, v \in Workers :
    /\ w # v /\ pc[w] = "XAppend" /\ pc[v] = "XAppend" /\ loop_i[w] # loop_i[v]

\* C11: with size = 0 or size < workers no stage makes an out-of-range or empty-vector
\* access, so the process never dies, and a run that ends reports a count match and a
\* correct sort
C11_SmallInputsRun ==
  N < num_workers =>
    /\ fault = "none"
    /\ exit_code # 1
    /\ exit_code = 0 => validation = "Sorted correctly!"

\* the sub-lists worker w has just built (lines 141-148), before it exchanges any
JustPartitioned(w) == pc[w] = "XLoop" /\ loop_i[w] = 0

\* C12 as claimed: every value v placed in bucket b satisfies s_b < v <= s_b+1, with
\* s_0 = -infinity and s_P = +infinity (splitters[b] is s_b)
C12_IntervalsClosedAbove ==
  \A w \in Workers :
    JustPartitioned(w) =>
      \A b \in Workers : \A k \in 1..Len(local_buckets[w][b]) :
        LET v == local_buckets[w][b][k]
        IN  /\ b = 0 \/ splitters[b] < v
            /\ b = num_workers - 1 \/ v <= splitters[b + 1]

\* C12 as amended: every value v placed in bucket b satisfies s_b <= v < s_b+1: the
\* buckets are (-inf, s_1), [s_1, s_2), ..., [s_P-1, inf), and a value equal to a
\* splitter belongs to the bucket whose lower end is that splitter
C12_IntervalsClosedBelow ==
  \A w \in Workers :
    JustPartitioned(w) =>
      \A b \in Workers : \A k \in 1..Len(local_buckets[w][b]) :
        LET v == local_buckets[w][b][k]
        IN  /\ b = 0 \/ splitters[b] <= v
            /\ b = num_workers - 1 \/ v < splitters[b + 1]

C12_Witness ==
  /\ num_workers >= 3
  /\ \E w \in Workers :
       /\ JustPartitioned(w)
       /\ \E b \in Workers :
            /\ b >= 1 /\ b < num_workers - 1
            /\ local_buckets[w][b] # << >>
            /\ local_buckets[w][b][1] = splitters[b]
            /\ splitters[b] < splitters[b + 1]

\* the dataset positions (1-based) the claim gives worker w: [w*floor(N/P), w*floor(N/P) +
\* floor(N/P)), and [(P-1)*floor(N/P), N) for the last worker
ClaimedFirst(w) == w * (N \div num_workers) + 1
ClaimedLast(w) ==
  IF w = num_workers - 1 THEN N ELSE w * (N \div num_workers) + (N \div num_workers)

FirstBoundary == \A w \in Workers : pc[w] \in { "B1", "W1" }

\* C13: when all workers have finished LocalSort, every dataset position lies in exactly
\* one worker's range, every chunk is ascending and holds exactly the values of its range,
\* and no step ever changes the dataset
C13_InitialChunks ==
  /\ [](FirstBoundary =>
          /\ \A i \in 1..N :
               Cardinality({ w \in Workers : ClaimedFirst(w) <= i /\ i <= ClaimedLast(w) }) = 1
          /\ \A w \in Workers :
               /\ IsSorted(local_chunk[w])
               /\ Len(local_chunk[w]) = ClaimedLast(w) - ClaimedFirst(w) + 1
               /\ { local_chunk[w][k] : k \in 1..Len(local_chunk[w]) }
                    = { dataset[i] : i \in ClaimedFirst(w)..ClaimedLast(w) })
  /\ [][dataset' = dataset]_vars

C13_Witness ==
  /\ FirstBoundary /\ num_workers >= 2 /\ N % num_workers # 0
  /\ Len(local_chunk[num_workers - 1]) >= 2
  /\ dataset[N - 1] > dataset[N]
  /\ local_chunk[0] # << >>

\* ---- main's collection and validation (lines 239-264) as a function of what it is
\* ---- handed: the dataset and the final chunks the workers left in their contexts

\* a result vector to hand to the validation: an arrangement of the dataset's values, one
\* with an element lost, or one of the right length with a value repeated
FinalOutputs(n) ==
  Shuffles(n)
    \cup { SubSeq(s, 1, n - 1) : s \in Shuffles(n) }
    \cup { [s EXCEPT ![n] = s[1]] : s \in Shuffles(n) }

\* every division of a result vector into P consecutive final chunks (lines 241-243 put
\* the chunks back together in worker-id order)
FinalChunks(out, P) ==
  { [w \in 0..(P - 1) |-> SubSeq(out, c[w] + 1, c[w + 1])] :
      c \in { f \in [0..P -> 0..Len(out)] :
                /\ f[0] = 0 /\ f[P] = Len(out)
                /\ \A w \in 0..(P - 1) : f[w] <= f[w + 1] } }

\* the state after the pthread_join of line 234, for any final chunks
ValidateInit ==
  \E p \in 1..MaxP, n \in 1..MaxN :
    \E d \in Shuffles(n), out \in FinalOutputs(n) :
      \E chunks \in FinalChunks(out, p) :
        /\ num_workers = p
        /\ random_seed = 0
        /\ dataset = d
        /\ splitters = << >>
        /\ storage = << >>
        /\ lock = NoHolder
        /\ bucket_locks = [b \in 0..(p - 1) |-> NoHolder]
        /\ bucket_contributions = [b \in 0..(p - 1) |-> << >>]
        /\ barrier_count = 0
        /\ barrier_gen = 4
        /\ pc = [w \in 0..(p - 1) |-> "Done"]
        /\ my_gen = [w \in 0..(p - 1) |-> 4]
        /\ local_chunk = chunks
        /\ local_samples = [w \in 0..(p - 1) |-> << >>]
        /\ local_buckets = [w \in 0..(p - 1) |-> [b \in 0..(p - 1) |-> << >>]]
        /\ loop_i = [w \in 0..(p - 1) |-> p]
        /\ total_samples = 0
        /\ splitter_step = 0
        /\ sel_i = 0
        /\ fault = "none"
        /\ bucket_reads = [b \in 0..(p - 1) |-> << b >>]
        /\ exit_code = -1
        /\ validation = "none"
        /\ total_counted = 0

ValidateNext == MainCollect

ValidateSpec == ValidateInit /\ [][ValidateNext]_vars

Occurrences(s, v) == Cardinality({ i \in 1..Len(s) : s[i] = v })

SubMultiset(s, t) == \A i \in 1..Len(s) : Occurrences(s, s[i]) <= Occurrences(t, s[i])

\* C15: a worker that has just sampled holds min(S, |chunk|) samples, S = 10 * P: its whole
\* chunk when that is shorter than S, otherwise S values from distinct positions of the
\* chunk; when the leader comes out of the barrier after the contribution the pool holds
\* exactly the samples of all workers, none lost and none twice
C15_SampleContribution ==
  /\ \A w \in Workers :
       pc[w] = "SLock" =>
         /\ Len(local_samples[w]) = Min(OversampleK * num_workers, Len(local_chunk[w]))
         /\ Len(local_chunk[w]) < OversampleK * num_workers =>
              local_samples[w] = local_chunk[w]
         /\ SubMultiset(local_samples[w], local_chunk[w])
  /\ pc[0] = "SelSort" =>
       SortAsc(splitters) = SortAsc(ConcatFrom(local_samples, 0, num_workers))

C15_Witness ==
  /\ pc[0] = "SelSort"
  /\ Len(local_chunk[0]) > OversampleK * num_workers
  /\ Len(splitters) = OversampleK * num_workers
  /\ local_samples[0] # SubSeq(local_chunk[0], 1, OversampleK * num_workers)

\* the full sample pool, sorted ascending, as it stood before the leader cleared it: the
\* samples of all workers (C15); local_samples is not touched after SampleContribute
SortedPool == SortAsc(ConcatFrom(local_samples, 0, num_workers))

\* C16: when the leader publishes the splitters of a non-empty pool, splitter i-1 is
\* pool[i * step] (0-based) for every i in 1..P-1, pool being the sorted sample pool before
\* the clear and step = floor(|pool| / P)
C16_NearestRank ==
  (pc[0] = "B3" /\ SortedPool # << >>) =>
    /\ Len(splitters) = num_workers - 1
    /\ \A i \in 1..(num_workers - 1) :
         splitters[i] = SortedPool[i * (Len(SortedPool) \div num_workers) + 1]

C16_Witness ==
  /\ pc[0] = "B3" /\ num_workers >= 3
  /\ Len(SortedPool) >= num_workers
  /\ splitters[1] < splitters[2]
  /\ splitters[2] = SortedPool[2 * (Len(SortedPool) \div num_workers) + 1]

\* C17: once the leader's selection has ended, Splitters is monotonically non-decreasing,
\* repeated entries included, for every sample pool and every P
C17_SplittersMonotone == LeaderSelectionEnded => IsSorted(splitters)

C17_Witness ==
  /\ pc[0] = "Partition" /\ num_workers >= 3
  /\ Len(splitters) = num_workers - 1
  /\ splitters[1] = splitters[2]

\* C18: Splitters is written by the leader only, between the barrier after SampleContribute
\* and the barrier after the selection: a step that changes it is a step of worker 0 in
\* the selection, and no other worker moves in it
C18_LeaderOnlyWrites ==
  [][splitters' # splitters =>
       /\ barrier_gen = 2
       /\ pc[0] \in SelectionPcs
       /\ \A w \in Workers \ { 0 } : pc'[w] = pc[w]]_vars

\* C18 as the code has it: the vector of Splitters is also the sample pool. Before the
\* barrier after SampleContribute every worker appends its samples to it under the global
\* mutex; between that barrier and the barrier after the selection only the leader writes
\* it; after the barrier following the selection no worker writes it
C18_PoolThenLeaderWrites ==
  [][splitters' # splitters =>
       \/ /\ barrier_gen = 1
          /\ \E w \in Workers :
               /\ pc[w] = "SAppend" /\ pc'[w] = "SUnlock" /\ lock = w
               /\ splitters' = splitters \o local_samples[w]
               /\ \A v \in Workers \ { w } : pc'[v] = pc[v]
       \/ /\ barrier_gen = 2
          /\ pc[0] \in SelectionPcs
          /\ \A w \in Workers \ { 0 } : pc'[w] = pc[w]]_vars

C18_Witness ==
  /\ num_workers >= 2 /\ pc[0] = "SelLoop" /\ sel_i = 2
  /\ Len(splitters) = 1
  /\ \E w \in Workers \ { 0 } : local_samples[w] # << >> /\ splitters[1] = local_samples[w][1]

\* C19: a bucket's mutex is held only by a worker whose sub-list for that bucket is not
\* empty; a step that changes bucket b is that worker's append: it extends bucket b by
\* exactly the sub-list, keeps what b held, and leaves every other bucket, the Splitters
\* and every chunk unchanged; the local grouping is done with no lock held or taken
C19_ExchangeFrame ==
  /\ [](\A b \in Workers :
          bucket_locks[b] # NoHolder => local_buckets[bucket_locks[b]][b] # << >>)
  /\ [][\A b \in Workers :
          bucket_contributions'[b] # bucket_contributions[b] =>
            /\ \E w \in Workers :
                 /\ pc[w] = "XAppend" /\ loop_i[w] = b /\ bucket_locks[b] = w
                 /\ local_buckets[w][b] # << >>
                 /\ bucket_contributions'[b] = bucket_contributions[b] \o local_buckets[w][b]
            /\ \A c \in Workers \ { b } : bucket_contributions'[c] = bucket_contributions[c]
            /\ splitters' = splitters
            /\ local_chunk' = local_chunk]_vars
  /\ [][\A w \in Workers :
          local_buckets'[w] # local_buckets[w] =>
            /\ pc[w] = "Partition"
            /\ lock # w /\ \A b \in Workers : bucket_locks[b] # w
            /\ lock' = lock /\ bucket_locks' = bucket_locks]_vars

C19_Witness ==
  \E w \in Workers, b \in Workers :
    /\ pc[w] = "XUnlock" /\ loop_i[w] = b
    /\ local_buckets[w][b] # << >>
    /\ Len(bucket_contributions[b]) > Len(local_buckets[w][b])
    /\ \E c \in Workers : c < b /\ local_buckets[w][c] = << >>

\* C20: with a non-empty pool (T >= 1) every selection index i * floor(T / P), i in 1..P-1,
\* is below T, so the loop leaves P-1 splitters and the padding loop has nothing to add;
\* the padding loop's body runs exactly when the pool is empty and P >= 2, and then
\* Splitters is empty: there is no last value to repeat
C20_PaddingOnlyWhenEmpty ==
  /\ (pc[0] = "SelLoop" /\ sel_i < num_workers /\ total_samples >= 1) =>
       sel_i * splitter_step < total_samples
  /\ pc[0] = "SelPad" =>
       /\ total_samples >= 1 => Len(splitters) = num_workers - 1
       /\ Len(splitters) < num_workers - 1 <=> (total_samples = 0 /\ num_workers >= 2)
       /\ Len(splitters) < num_workers - 1 => splitters = << >>

C20_Witness ==
  /\ pc[0] = "SelPad" /\ num_workers >= 3
  /\ total_samples >= 1 /\ total_samples % num_workers # 0
  /\ Len(splitters) = num_workers - 1

====
